---- MODULE Spec2Model ----
(***************************************************************************)
(* Task entity lifecycle of the production-tracking backend:               *)
(* TaskEntity.load / TaskEntity.save (openpype/entities/task.py) on top of *)
(* the project tables tasks, exported_attributes and task_types; the       *)
(* schema shapes of ModelSet (ayon_server/entities/models/__init__.py);    *)
(* the anatomy transform (ayon_server/helpers/deploy_project.py).          *)
(* Spec is the task lifecycle, SpecModels the sequential use of a          *)
(* ModelSet, SpecRace its concurrent first use, SpecLock two callers of    *)
(* load(for_update), SpecAnatomy the anatomy transform, SpecInstance the   *)
(* statements of a caller on an attribute sub-schema instance, SpecLabel   *)
(* the label property of TaskEntity, SpecAvatar the avatar endpoints        *)
(* (api/users/avatar.py), SpecPresets the anatomy preset endpoints          *)
(* (api/anatomy/__init__.py).                                              *)
(***************************************************************************)
EXTENDS Integers, Sequences, FiniteSets, TLC

(***************************************************************************)
(* Bounds of the model.                                                    *)
(***************************************************************************)
\* number of distinct attribute values a caller or a folder can set
NumValues == 2

\* longest field list of an entity type whose list is not given
MaxFields == 2

\* generations of one shape after which no further one is started
MaxGen == 2

\* writes of the task row after which no further save is started
MaxWrites == 2

\* most root definitions of an anatomy
MaxRoots == 2

\* longest value of a list_of_strings attribute
MaxTools == 2

\* frames of the interpreter's stack after which a call raises RecursionError
MaxDepth == 50

\* uploads of the avatar after which no further one is started
MaxUploads == 2

(***************************************************************************)
(* Nullable values (python None) are sets of at most one element.          *)
(***************************************************************************)
Null == {}

Some(x) == {x}

IsNull(n) == n = {}

Unwrap(n) == CHOOSE x \in n : TRUE

(***************************************************************************)
(* Python dicts keep insertion order: a dict is a sequence of <<key,       *)
(* value>> pairs with distinct keys.                                       *)
(***************************************************************************)
DictKeys(d) == [i \in 1..Len(d) |-> d[i][1]]

KeySet(d) == {d[i][1] : i \in 1..Len(d)}

DictGet(d, k) == (CHOOSE i \in 1..Len(d) : d[i][1] = k)

DictValue(d, k) == d[DictGet(d, k)][2]

\* d[k] = v : an existing key keeps its position, a new key is appended
DictSet(d, k, v) ==
    IF k \in KeySet(d)
    THEN [i \in 1..Len(d) |-> IF d[i][1] = k THEN <<k, v>> ELSE d[i]]
    ELSE Append(d, <<k, v>>)

RECURSIVE DictUpdate(_, _)
\* a |= b
DictUpdate(a, b) ==
    IF b = <<>> THEN a
    ELSE DictUpdate(DictSet(a, Head(b)[1], Head(b)[2]), Tail(b))

Range(s) == {s[i] : i \in 1..Len(s)}

(***************************************************************************)
(* Attributes.  The task attribute library registers frameStart; "custom"  *)
(* is a key the library does not know (a JSON column can hold any key).    *)
(***************************************************************************)
attribute_library == [task |-> <<[name |-> "frameStart", default |-> 1]>>]

RegisteredNames == {attribute_library.task[i].name :
                        i \in 1..Len(attribute_library.task)}

AttrNames == RegisteredNames \cup {"custom"}

AttrValues == 1001..(1000 + NumValues)

AttrDefault(a) ==
    LET i == CHOOSE j \in 1..Len(attribute_library.task) :
                 attribute_library.task[j].name = a
    IN  attribute_library.task[i].default

\* every dict over the given keys, in every key order
RECURSIVE DictsOver(_)
DictsOver(keys) ==
    IF keys = {} THEN {<<>>}
    ELSE UNION {{Append(d, <<k, v>>) : d \in DictsOver(keys \ {k}),
                                       v \in AttrValues} : k \in keys}

AllDicts == UNION {DictsOver(ks) : ks \in SUBSET AttrNames}

\* a JSON object read back from the database lists its keys in a fixed order
KeyOrder == <<"frameStart", "custom">>

RECURSIVE JsonDictFrom(_, _)
JsonDictFrom(m, i) ==
    IF i > Len(KeyOrder) THEN <<>>
    ELSE IF KeyOrder[i] \in DOMAIN m
         THEN <<(<<KeyOrder[i], m[KeyOrder[i]]>>)>> \o JsonDictFrom(m, i + 1)
         ELSE JsonDictFrom(m, i + 1)

JsonDict(m) == JsonDictFrom(m, 1)

AllMaps == UNION {[ks -> AttrValues] : ks \in SUBSET AttrNames}

(***************************************************************************)
(* Identifiers and task types.                                             *)
(***************************************************************************)
TaskId == "task1"

EntityIds == {"task1", "task2", "not-an-id"}

\* EntityID.parse: None for a string that is not an entity id
EntityID_parse(entity_id) ==
    IF entity_id = "not-an-id" THEN Null ELSE Some(entity_id)

FolderId == "folder1"

TaskTypeNames == {"Generic", "Modeling"}

TaskTypeTables ==
    { {},
      {[name |-> "Generic", position |-> 0], [name |-> "Modeling", position |-> 1]} }

(***************************************************************************)
(* ModelSet: the field descriptors and the patch shape.  A descriptor is   *)
(* [name, required, dynamic]; a key the python dict leaves out is FALSE.   *)
(***************************************************************************)
Field(n, r, d) == [name |-> n, required |-> r, dynamic |-> d]

task_fields == <<Field("name", TRUE, FALSE),
                 Field("label", FALSE, FALSE),
                 Field("task_type", TRUE, FALSE),
                 Field("assignees", FALSE, FALSE),
                 Field("folder_id", TRUE, FALSE)>>

FIELD_LISTS == [user |-> <<>>, task |-> task_fields]

_common_fields == <<Field("attrib", FALSE, FALSE),
                    Field("data", FALSE, FALSE),
                    Field("active", FALSE, FALSE),
                    Field("own_attrib", FALSE, TRUE)>>

\* the project-level fields for every type but project
_project_level_fields_user_too(name) ==
    IF name \in {"project"} THEN <<>>
    ELSE <<Field("status", FALSE, FALSE), Field("tags", FALSE, FALSE)>>

_project_level_fields(entity_name) ==
    IF entity_name \in {"project", "user"} THEN <<>>
    ELSE <<Field("status", FALSE, FALSE), Field("tags", FALSE, FALSE)>>

RECURSIVE PatchFieldsKeepRequired(_)
\* the same loop without the assignment field["required"] = False
PatchFieldsKeepRequired(fields) ==
    IF fields = <<>> THEN <<>>
    ELSE LET original_field == Head(fields)
         IN  IF original_field.dynamic
             THEN PatchFieldsKeepRequired(Tail(fields))
             ELSE <<original_field>> \o PatchFieldsKeepRequired(Tail(fields))

RECURSIVE PatchFieldsOf(_)
\* the loop of _generate_patch_model: skip dynamic fields, copy the others
\* with required = False
PatchFieldsOf(fields) ==
    IF fields = <<>> THEN <<>>
    ELSE LET original_field == Head(fields)
         IN  IF original_field.dynamic
             THEN PatchFieldsOf(Tail(fields))
             ELSE <<[original_field EXCEPT !.required = FALSE]>>
                      \o PatchFieldsOf(Tail(fields))

_generate_patch_model_required(entity_name) ==
    PatchFieldsKeepRequired(FIELD_LISTS[entity_name]
                            \o _project_level_fields(entity_name)
                            \o _common_fields)

_generate_patch_model(entity_name) ==
    PatchFieldsOf(FIELD_LISTS[entity_name]
                  \o _project_level_fields(entity_name)
                  \o _common_fields)

\* a document validates against a shape when it has no unknown field and
\* has every required one
Validates(doc, shape) ==
    /\ DOMAIN doc \subseteq {shape[i].name : i \in 1..Len(shape)}
    /\ \A i \in 1..Len(shape) : shape[i].required => shape[i].name \in DOMAIN doc

(***************************************************************************)
(* State.                                                                  *)
(***************************************************************************)
VARIABLES
    project_exists,       \* the schema project_{project_name} exists
    tasks,                \* table tasks: rows [id, task_type, folder_id, attrib]
    exported_attributes,  \* table exported_attributes: rows [folder_id, attrib]
    task_types,           \* table task_types: rows [name, position]
    entity,               \* the caller's TaskEntity instance, or Null
    result,               \* what the last operation did
    explicit,             \* attribute names a caller ever set on the task
    patched,              \* values patched on the instance and not yet saved
    pinned,               \* values patched on the task and saved
    \* a ModelSet
    entity_name,          \* self.entity_name
    has_id,               \* self.has_id
    fields,               \* self.fields: the descriptors FIELD_LISTS shares
    _model,               \* self._model, Null or the cached full shape
    _post_model,          \* self._post_model
    _patch_model,         \* self._patch_model
    _attrib_model,        \* self._attrib_model
    generations,          \* per shape, how many times it was generated
    returned,             \* per shape, the values its accesses returned
    callers,              \* per concurrent caller, where its access stands
    \* two callers of load(for_update) .. save on one task row
    lock_pc,              \* per caller, where its read-modify-write stands
    lock_holder,          \* the database sessions holding the row lock
    row_version,          \* the stored value of the row
    seen_version,         \* per caller, the value its load read
    \* the anatomy transform
    anatomy,              \* the Anatomy given to anatomy_to_project_data
    project_data,         \* Null, or the dict it returned
    \* an instance of the attribute sub-schema in the hands of a caller
    attrib_instance,      \* entity.attrib: the value of each attribute
    instance_own,         \* entity.own_attrib
    instance_result,      \* what the last statement of the caller did
    \* the label property of a TaskEntity
    label_stack,          \* the frames of the accessors that were entered
    label_result,         \* how the last read or assignment of label ended
    \* the avatar of one user who has no avatarUrl
    avatar_files,         \* per extension, the file {user_name}.{ext} or Null
    avatar_cache,         \* the Redis key of the user, Null or bytes
    avatar_clients,       \* per client, where its request stands
    uploads_done,         \* how many uploads have completed
    \* the table anatomy_presets and the requests on it
    anatomy_presets,      \* committed rows of the table, per preset name
    preset_tx             \* per caller, its open transaction

taskVars == <<project_exists, tasks, exported_attributes, task_types, entity,
              result, explicit, patched, pinned>>

modelVars == <<entity_name, has_id, fields, _model, _post_model, _patch_model,
               _attrib_model, generations, returned, callers>>

lockVars == <<lock_pc, lock_holder, row_version, seen_version>>

anatomyVars == <<anatomy, project_data>>

instanceVars == <<attrib_instance, instance_own, instance_result>>

labelVars == <<label_stack, label_result>>

avatarVars == <<avatar_files, avatar_cache, avatar_clients, uploads_done>>

presetVars == <<anatomy_presets, preset_tx>>

vars == <<taskVars, modelVars, lockVars, anatomyVars, instanceVars,
          labelVars, avatarVars, presetVars>>

notTask == <<modelVars, lockVars, anatomyVars, instanceVars, labelVars,
             avatarVars, presetVars>>

notModels == <<taskVars, lockVars, anatomyVars, instanceVars, labelVars,
               avatarVars, presetVars>>

notLock == <<taskVars, modelVars, anatomyVars, instanceVars, labelVars,
             avatarVars, presetVars>>

notAnatomy == <<taskVars, modelVars, lockVars, instanceVars, labelVars,
                avatarVars, presetVars>>

notInstance == <<taskVars, modelVars, lockVars, anatomyVars, labelVars,
                 avatarVars, presetVars>>

notLabel == <<taskVars, modelVars, lockVars, anatomyVars, instanceVars,
              avatarVars, presetVars>>

notAvatar == <<taskVars, modelVars, lockVars, anatomyVars, instanceVars,
               labelVars, presetVars>>

notPreset == <<taskVars, modelVars, lockVars, anatomyVars, instanceVars,
               labelVars, avatarVars>>

\* the four shapes of a ModelSet
Shapes == {"attrib", "main", "post", "patch"}

\* concurrent callers of a ModelSet
Callers == {"c1", "c2"}

CallerIdle == [pc |-> "idle", shape |-> "", local |-> {}]

\* what the other specifications hold the untouched parts at
ModelsIdle ==
    /\ entity_name = "task"
    /\ has_id = TRUE
    /\ fields = task_fields
    /\ _model = Null
    /\ _post_model = Null
    /\ _patch_model = Null
    /\ _attrib_model = Null
    /\ generations = [k \in Shapes |-> 0]
    /\ returned = [k \in Shapes |-> {}]
    /\ callers = [c \in Callers |-> CallerIdle]

LockCallerIdle == [pc |-> "idle", transaction |-> FALSE, for_update |-> FALSE]

LockIdle ==
    /\ lock_pc = [c \in Callers |-> LockCallerIdle]
    /\ lock_holder = {}
    /\ row_version = 0
    /\ seen_version = [c \in Callers |-> 0]

InstanceIdle ==
    /\ attrib_instance = Null
    /\ instance_own = <<>>
    /\ instance_result = "none"

LabelIdle ==
    /\ label_stack = <<>>
    /\ label_result = "none"

\* the extensions load_avatar_file looks for
AvatarExts == {"jpeg", "png", "jpg", "svg"}

ClientIdle == [pc |-> "idle", bytes |-> Null, floor |-> 0, response |-> Null]

AvatarIdle ==
    /\ avatar_files = [ext \in AvatarExts |-> Null]
    /\ avatar_cache = Null
    /\ avatar_clients = [c \in Callers |-> ClientIdle]
    /\ uploads_done = 0

\* the names of the presets a client works with
PresetNames == {"film", "series"}

TxIdle == [pc |-> "idle", name |-> "", writes |-> {}]

PresetIdle ==
    /\ anatomy_presets = [n \in PresetNames |-> Null]
    /\ preset_tx = [c \in Callers |-> TxIdle]

AnatomyIdle ==
    /\ anatomy = Null
    /\ project_data = {}

\* op, its argument (the id loaded, "empty" for an empty patch document),
\* its outcome, whether it logged a warning, whether save found task_type unset
Result(op, outcome) ==
    [op |-> op, arg |-> "", outcome |-> outcome, warned |-> FALSE,
     unset_type |-> FALSE]

EmptyMap == [a \in {} |-> 0]

TaskInit ==
    /\ project_exists \in BOOLEAN
    /\ task_types \in (IF project_exists THEN TaskTypeTables ELSE {{}})
    /\ tasks \in (IF project_exists
                  THEN {{}} \cup {{[id |-> TaskId, task_type |-> Some(t),
                                    folder_id |-> FolderId, attrib |-> d]} :
                                      t \in {"Generic"}, d \in AllDicts}
                  ELSE {{}})
    /\ exported_attributes =
           (IF project_exists
            THEN {[folder_id |-> FolderId, attrib |-> EmptyMap]} ELSE {})
    /\ entity = Null
    /\ result = Result("none", "none")
    /\ explicit = UNION {KeySet(t.attrib) : t \in tasks}
    /\ patched = EmptyMap
    /\ pinned = EmptyMap

TaskIdle ==
    /\ project_exists = FALSE
    /\ task_types = {}
    /\ tasks = {}
    /\ exported_attributes = {}
    /\ entity = Null
    /\ result = Result("none", "none")
    /\ explicit = {}
    /\ patched = EmptyMap
    /\ pinned = EmptyMap

Init == TaskInit /\ ModelsIdle /\ LockIdle /\ AnatomyIdle /\ InstanceIdle
    /\ LabelIdle /\ AvatarIdle /\ PresetIdle

(***************************************************************************)
(* The structural-change collaborator maintains the closure rows.          *)
(***************************************************************************)
RefreshClosure(m) ==
    /\ UNCHANGED notTask
    /\ project_exists
    /\ exported_attributes' = {[folder_id |-> FolderId, attrib |-> m]}
    /\ exported_attributes' # exported_attributes
    /\ result' = Result("closure", "changed")
    /\ UNCHANGED <<project_exists, tasks, task_types, entity, explicit,
                   patched, pinned>>

DropClosure ==
    /\ UNCHANGED notTask
    /\ project_exists
    /\ exported_attributes # {}
    /\ exported_attributes' = {}
    /\ result' = Result("closure", "changed")
    /\ UNCHANGED <<project_exists, tasks, task_types, entity, explicit,
                   patched, pinned>>

(***************************************************************************)
(* TaskEntity.load                                                         *)
(***************************************************************************)
\* the columns the SELECT of load names
SelectedColumns ==
    {"id", "name", "label", "task_type", "assignees", "folder_id", "attrib",
     "data", "active", "created_at", "updated_at", "status", "tags",
     "inherited_attrib"}

\* the join without its WHERE clause: the rows of every task
QueryRecordsAnyId(entity_id) ==
    {[id |-> t.id, task_type |-> t.task_type, folder_id |-> t.folder_id,
      attrib |-> t.attrib,
      inherited_attrib |->
          IF \E ia \in exported_attributes : ia.folder_id = t.folder_id
          THEN Some(JsonDict((CHOOSE ia \in exported_attributes :
                                  ia.folder_id = t.folder_id).attrib))
          ELSE Null] : t \in tasks}

\* tasks AS t LEFT JOIN exported_attributes AS ia ON t.folder_id = ia.folder_id
\* WHERE t.id = $1 : inherited_attrib is NULL when no closure row matches
QueryRecords(entity_id) ==
    {[id |-> t.id, task_type |-> t.task_type, folder_id |-> t.folder_id,
      attrib |-> t.attrib,
      inherited_attrib |->
          IF \E ia \in exported_attributes : ia.folder_id = t.folder_id
          THEN Some(JsonDict((CHOOSE ia \in exported_attributes :
                                  ia.folder_id = t.folder_id).attrib))
          ELSE Null] : t \in {t \in tasks : t.id = entity_id}}

\* the dict load starts from, carried over from the instance the caller holds
StaleAttrib ==
    IF entity = Null THEN <<>>
    ELSE LET e == Unwrap(entity)
         IN  JsonDict([a \in DOMAIN e.attrib \ Range(e.own_attrib) |-> e.attrib[a]])

\* attrib: dict[str, Any] = {}
InitialAttrib == <<>>

\* the merge with the two updates swapped: the closure overrides the task
ClosureWinsAttrib(rec) ==
    DictUpdate(DictUpdate(InitialAttrib, rec.attrib),
               IF IsNull(rec.inherited_attrib) THEN <<>>
               ELSE Unwrap(rec.inherited_attrib))

\* the merge without the closure
OwnOnlyAttrib(rec) == DictUpdate(InitialAttrib, rec.attrib)

\* the merge without the task's stored values
InheritedOnlyAttrib(rec) ==
    DictUpdate(InitialAttrib,
               IF IsNull(rec.inherited_attrib) THEN <<>>
               ELSE Unwrap(rec.inherited_attrib))

\* attrib |= ia (when the closure is there); attrib |= record["attrib"]
MergedAttrib(rec) ==
    DictUpdate(DictUpdate(InitialAttrib,
                          IF IsNull(rec.inherited_attrib) THEN <<>>
                          ELSE Unwrap(rec.inherited_attrib)),
               rec.attrib)

\* own_attrib taken from the merged dict
MergedKeys(rec) == DictKeys(MergedAttrib(rec))

\* own_attrib left empty
NoOwnAttrib(rec) == <<>>

\* own_attrib = list(record["attrib"].keys())
OwnAttribOf(rec) == DictKeys(rec.attrib)

\* cls.from_record(payload, validate=False, own_attrib): the attribute model
\* keeps the payload's values and fills a registered attribute the payload
\* lacks with its default
from_record(payload, own_attrib) ==
    [attrib |-> [a \in KeySet(payload.attrib) \cup RegisteredNames |->
                    IF a \in KeySet(payload.attrib)
                    THEN DictValue(payload.attrib, a) ELSE AttrDefault(a)],
     own_attrib |-> own_attrib,
     task_type |-> payload.task_type,
     folder_id |-> payload.folder_id,
     folder_type |-> Null]

LoadFails(entity_id, outcome) ==
    /\ entity' = Null
    /\ result' = [Result("load", outcome) EXCEPT !.arg = entity_id]

Load(entity_id) ==
    /\ UNCHANGED notTask
    /\ UNCHANGED <<project_exists, tasks, exported_attributes, task_types,
                   explicit, pinned>>
    /\ patched' = EmptyMap
    /\ IF IsNull(EntityID_parse(entity_id))
       THEN LoadFails(entity_id, "ValueError")
       ELSE IF ~project_exists
       THEN LoadFails(entity_id, "NotFoundException: project")
       ELSE IF QueryRecords(entity_id) = {}
       THEN LoadFails(entity_id, "NotFoundException: entity")
       ELSE LET rec == CHOOSE r \in QueryRecords(entity_id) : TRUE
            IN  IF IsNull(rec.inherited_attrib) /\ "parent_id" \notin SelectedColumns
                THEN \* record["parent_id"] is not a column of the record
                     LoadFails(entity_id, "KeyError")
                ELSE /\ entity' = Some(from_record(
                                     [rec EXCEPT !.attrib = MergedAttrib(rec)],
                                     OwnAttribOf(rec)))
                     /\ result' = [Result("load", "loaded") EXCEPT
                                      !.arg = entity_id,
                                      !.warned = /\ IsNull(rec.inherited_attrib)
                                                 /\ ~IsNull(rec.parent_id)]

(***************************************************************************)
(* patch, the task_type setter, save, delete                               *)
(***************************************************************************)
\* the partial documents a caller sends: empty, or with an attrib field
PatchAttribs == UNION {[ks -> AttrValues] : ks \in SUBSET RegisteredNames}

PatchDocs == {EmptyMap} \cup {[attrib |-> m] : m \in PatchAttribs}

Overlay(m, n) ==
    [a \in DOMAIN m \cup DOMAIN n |-> IF a \in DOMAIN n THEN n[a] ELSE m[a]]

RECURSIVE AppendNew(_, _)
\* append the keys of the dict that the list does not hold yet
AppendNew(list, d) ==
    IF d = <<>> THEN list
    ELSE AppendNew(IF Head(d)[1] \in Range(list) THEN list
                   ELSE Append(list, Head(d)[1]), Tail(d))

Patch(doc) ==
    /\ UNCHANGED notTask
    /\ entity # Null
    /\ UNCHANGED <<project_exists, tasks, exported_attributes, task_types,
                   pinned>>
    /\ IF ~Validates(doc, _generate_patch_model("task"))
       THEN /\ result' = [Result("patch", "ValidationError") EXCEPT
                             !.arg = IF DOMAIN doc = {} THEN "empty" ELSE "doc"]
            /\ UNCHANGED <<entity, explicit, patched>>
       ELSE LET e == Unwrap(entity)
                new_attrib == IF "attrib" \in DOMAIN doc THEN doc.attrib
                              ELSE EmptyMap
            IN  /\ entity' = Some(
                       [e EXCEPT
                          !.attrib = Overlay(e.attrib, new_attrib),
                          !.own_attrib = AppendNew(e.own_attrib, JsonDict(new_attrib))])
                /\ explicit' = explicit \cup DOMAIN new_attrib
                /\ patched' = Overlay(patched, new_attrib)
                /\ result' = [Result("patch", "patched") EXCEPT
                                 !.arg = IF DOMAIN doc = {} THEN "empty" ELSE "doc"]

\* task_type.setter
SetTaskType(value) ==
    /\ UNCHANGED notTask
    /\ entity # Null
    /\ Unwrap(entity).task_type # value
    /\ entity' = Some([Unwrap(entity) EXCEPT !.task_type = value])
    /\ result' = Result("set_task_type", "set")
    /\ UNCHANGED <<project_exists, tasks, exported_attributes, task_types,
                   explicit, patched, pinned>>

\* SELECT name FROM task_types ORDER BY position ASC LIMIT 1
FirstTaskType ==
    IF task_types = {} THEN <<>>
    ELSE <<CHOOSE r \in task_types : \A o \in task_types : r.position <= o.position>>

\* the stored attrib holds the own subset, in own_attrib order
OwnSubsetOf(e) == [i \in 1..Len(e.own_attrib) |->
                      <<e.own_attrib[i], e.attrib[e.own_attrib[i]]>>]

\* super().save(): write the row of the entity
BaseSave(e, unset_type) ==
    /\ tasks' = {[id |-> TaskId, task_type |-> e.task_type,
                  folder_id |-> e.folder_id, attrib |-> OwnSubsetOf(e)]}
    /\ entity' = Some(e)
    /\ pinned' = Overlay(pinned, patched)
    /\ patched' = EmptyMap
    /\ result' = [Result("save", "saved") EXCEPT !.unset_type = unset_type]

SaveFails(outcome) ==
    /\ result' = [Result("save", outcome) EXCEPT !.unset_type = TRUE]
    /\ UNCHANGED <<tasks, entity, pinned, patched>>

Save(transaction) ==
    /\ UNCHANGED notTask
    /\ entity # Null
    /\ UNCHANGED <<project_exists, exported_attributes, task_types, explicit>>
    /\ LET e == Unwrap(entity)
       IN  IF IsNull(e.task_type)
           THEN IF ~transaction
                THEN \* transaction=False has no fetch
                     SaveFails("AttributeError")
                ELSE LET res == FirstTaskType
                     IN  IF res = <<>>
                         THEN SaveFails("OpenPypeException")
                         ELSE BaseSave([e EXCEPT !.folder_type = Some(res[1].name)],
                                       TRUE)
           ELSE BaseSave(e, FALSE)

Delete ==
    /\ UNCHANGED notTask
    /\ entity # Null
    /\ tasks' = {}
    /\ entity' = Null
    /\ pinned' = EmptyMap
    /\ patched' = EmptyMap
    /\ result' = Result("delete", "deleted")
    /\ UNCHANGED <<project_exists, exported_attributes, task_types, explicit>>

Next ==
    \/ \E entity_id \in EntityIds : Load(entity_id)
    \/ \E doc \in PatchDocs : Patch(doc)
    \/ \E value \in {Null, Some("Generic")} : SetTaskType(value)
    \/ \E transaction \in BOOLEAN : Save(transaction)
    \/ Delete
    \/ \E m \in AllMaps : RefreshClosure(m)
    \/ DropClosure

Spec == Init /\ [][Next]_vars

TypeOK ==
    /\ project_exists \in BOOLEAN
    /\ Cardinality(tasks) <= 1
    /\ Cardinality(exported_attributes) <= 1
    /\ Cardinality(entity) <= 1

(***************************************************************************)
(* ModelSet: the shapes and their lazy generation.                         *)
(***************************************************************************)
EntityTypes == {"project", "user", "folder", "task", "subset", "version",
                "representation", "workfile"}

\* FIELD_LISTS maps every entity type to a list; the lists of the types
\* other than user and task are any list of descriptors with distinct names
FieldNamePool == {"name", "label", "path"}

FieldPool == {Field(n, r, d) : n \in FieldNamePool, r \in BOOLEAN, d \in BOOLEAN}

RECURSIVE FieldListsUpTo(_)
FieldListsUpTo(n) ==
    IF n = 0 THEN {<<>>}
    ELSE FieldListsUpTo(n - 1)
         \cup {Append(l, f) : l \in {l \in FieldListsUpTo(n - 1) : Len(l) = n - 1},
                              f \in FieldPool}

FieldNames(l) == {l[i].name : i \in 1..Len(l)}

NameList(l) == [i \in 1..Len(l) |-> l[i].name]

DistinctNames(l) == Cardinality(FieldNames(l)) = Len(l)

CandidateFields(name) ==
    IF name \in DOMAIN FIELD_LISTS THEN {FIELD_LISTS[name]}
    ELSE {l \in FieldListsUpTo(MaxFields) : DistinctNames(l)}

\* self.attributes = attributes or []
Attributes(name) ==
    IF name \in DOMAIN attribute_library THEN attribute_library[name] ELSE <<>>

\* the identifier field of the full shape: id, or name as natural key
pre_fields(hasid) ==
    IF hasid THEN <<Field("id", FALSE, FALSE)>> ELSE <<Field("name", TRUE, FALSE)>>

post_fields == <<Field("created_at", FALSE, FALSE), Field("updated_at", FALSE, FALSE)>>

\* generate_model(model_name, fields, config): a new model class; instance
\* tells apart two classes generated from the same arguments
generate_model(model_name, field_list, config, instance) ==
    [name |-> model_name, fields |-> field_list, config |-> config,
     instance |-> instance]

\* two models are structurally equal when they differ by the instance only
StructurallyEqual(m1, m2) ==
    /\ m1.name = m2.name
    /\ m1.fields = m2.fields
    /\ m1.config = m2.config

\* the list of _generate_post_model without the filter
PostFieldsKeepDynamic(fs) == fs

\* [f for f in ... if not f.get("dynamic")]
PostFieldsOf(fs) == SelectSeq(fs, LAMBDA f : ~f.dynamic)

\* the patch loop writing required = False into the shared descriptors
SharedAfterPatchNoCopy(fs) ==
    [i \in 1..Len(fs) |-> IF fs[i].dynamic THEN fs[i]
                          ELSE [fs[i] EXCEPT !.required = FALSE]]

\* field = copy.deepcopy(original_field): the shared descriptors stay as
\* they are
SharedAfterPatch(fs) == fs

\* _generate_entity_model
EntityModelOf(name, hasid, fs, instance) ==
    generate_model(<<name, "Model">>,
                   pre_fields(hasid) \o fs \o _common_fields
                       \o _project_level_fields(name) \o post_fields,
                   "EntityModelConfig", instance)

\* _generate_post_model
PostModelOf(name, fs, instance) ==
    generate_model(<<name, "PostModel">>,
                   PostFieldsOf(fs \o _project_level_fields(name) \o _common_fields),
                   "EntityModelConfig", instance)

\* _generate_patch_model
PatchModelOf(name, fs, instance) ==
    generate_model(<<name, "PatchModel">>,
                   PatchFieldsOf(fs \o _project_level_fields(name) \o _common_fields),
                   "EntityModelConfig", instance)

\* generate_model(f"{name}AttribModel", self.attributes, AttribModelConfig)
AttribModelOf(name, instance) ==
    generate_model(<<name, "AttribModel">>, Attributes(name),
                   "AttribModelConfig", instance)

\* a property that generates on every access
AlwaysGenerate(cache) == TRUE

\* if self._x is None
NeedsGeneration(cache) == IsNull(cache)

ModelsInit ==
    /\ entity_name \in EntityTypes
    /\ has_id \in BOOLEAN
    /\ fields \in CandidateFields(entity_name)
    /\ pre_fields(has_id)[1].name \notin FieldNames(fields)
    /\ _model = Null
    /\ _post_model = Null
    /\ _patch_model = Null
    /\ _attrib_model = Null
    /\ generations = [k \in Shapes |-> 0]
    /\ returned = [k \in Shapes |-> {}]
    /\ callers = [c \in Callers |-> CallerIdle]

\* the access self.attrib_model that _common_fields makes
AttribAfterAccess ==
    IF NeedsGeneration(_attrib_model)
    THEN Some(AttribModelOf(entity_name, generations["attrib"] + 1))
    ELSE _attrib_model

GenerationsAfterAttrib ==
    IF NeedsGeneration(_attrib_model)
    THEN [generations EXCEPT !["attrib"] = @ + 1]
    ELSE generations

CanGenerate(shape) == generations[shape] < MaxGen

\* an access returned value, found in the cache or not
Returns(shape, value, from_cache) ==
    returned' = [returned EXCEPT ![shape] = @ \cup {<<value, from_cache>>}]

\* ModelSet.attrib_model
attrib_model ==
    /\ NeedsGeneration(_attrib_model) => CanGenerate("attrib")
    /\ _attrib_model' = AttribAfterAccess
    /\ generations' = GenerationsAfterAttrib
    /\ Returns("attrib", Unwrap(_attrib_model'), ~NeedsGeneration(_attrib_model))
    /\ UNCHANGED <<entity_name, has_id, fields, _model, _post_model,
                   _patch_model, callers>>
    /\ UNCHANGED notModels

\* ModelSet.main_model
main_model ==
    /\ NeedsGeneration(_model) =>
           /\ CanGenerate("main")
           /\ NeedsGeneration(_attrib_model) => CanGenerate("attrib")
    /\ IF NeedsGeneration(_model)
       THEN /\ _attrib_model' = AttribAfterAccess
            /\ generations' = [GenerationsAfterAttrib EXCEPT !["main"] = @ + 1]
            /\ _model' = Some(EntityModelOf(entity_name, has_id, fields,
                                            generations["main"] + 1))
       ELSE UNCHANGED <<_attrib_model, generations, _model>>
    /\ Returns("main", Unwrap(_model'), ~NeedsGeneration(_model))
    /\ UNCHANGED <<entity_name, has_id, fields, _post_model, _patch_model, callers>>
    /\ UNCHANGED notModels

\* ModelSet.post_model
post_model ==
    /\ NeedsGeneration(_post_model) =>
           /\ CanGenerate("post")
           /\ NeedsGeneration(_attrib_model) => CanGenerate("attrib")
    /\ IF NeedsGeneration(_post_model)
       THEN /\ _attrib_model' = AttribAfterAccess
            /\ generations' = [GenerationsAfterAttrib EXCEPT !["post"] = @ + 1]
            /\ _post_model' = Some(PostModelOf(entity_name, fields,
                                               generations["post"] + 1))
       ELSE UNCHANGED <<_attrib_model, generations, _post_model>>
    /\ Returns("post", Unwrap(_post_model'), ~NeedsGeneration(_post_model))
    /\ UNCHANGED <<entity_name, has_id, fields, _model, _patch_model, callers>>
    /\ UNCHANGED notModels

\* ModelSet.patch_model
patch_model ==
    /\ NeedsGeneration(_patch_model) =>
           /\ CanGenerate("patch")
           /\ NeedsGeneration(_attrib_model) => CanGenerate("attrib")
    /\ IF NeedsGeneration(_patch_model)
       THEN /\ _attrib_model' = AttribAfterAccess
            /\ generations' = [GenerationsAfterAttrib EXCEPT !["patch"] = @ + 1]
            /\ _patch_model' = Some(PatchModelOf(entity_name, fields,
                                                 generations["patch"] + 1))
            /\ fields' = SharedAfterPatch(fields)
       ELSE UNCHANGED <<_attrib_model, generations, _patch_model, fields>>
    /\ Returns("patch", Unwrap(_patch_model'), ~NeedsGeneration(_patch_model))
    /\ UNCHANGED <<entity_name, has_id, _model, _post_model, callers>>
    /\ UNCHANGED notModels

ModelsNext ==
    \/ attrib_model
    \/ main_model
    \/ post_model
    \/ patch_model

InitModels == ModelsInit /\ TaskIdle /\ LockIdle /\ AnatomyIdle /\ InstanceIdle
    /\ LabelIdle /\ AvatarIdle /\ PresetIdle

SpecModels == InitModels /\ [][ModelsNext]_vars

(***************************************************************************)
(* Concurrent first use of a ModelSet: an access is its cache check, the   *)
(* generation, and the store with the return.                              *)
(***************************************************************************)
SetCache(shape, value) ==
    /\ _attrib_model' = IF shape = "attrib" THEN value ELSE _attrib_model
    /\ _model' = IF shape = "main" THEN value ELSE _model
    /\ _post_model' = IF shape = "post" THEN value ELSE _post_model
    /\ _patch_model' = IF shape = "patch" THEN value ELSE _patch_model

CachedValue(shape) ==
    IF shape = "attrib" THEN _attrib_model
    ELSE IF shape = "main" THEN _model
    ELSE IF shape = "post" THEN _post_model
    ELSE _patch_model

\* if self._x is None: ... ; a filled cache is returned at once
Check(c, shape) ==
    /\ callers[c].pc = "idle"
    /\ IF NeedsGeneration(CachedValue(shape))
       THEN /\ CanGenerate(shape)
            /\ callers' = [callers EXCEPT ![c] = [pc |-> "checked",
                                                  shape |-> shape, local |-> {}]]
       ELSE UNCHANGED callers
    /\ UNCHANGED <<entity_name, has_id, fields, _model, _post_model,
                   _patch_model, _attrib_model, generations, returned>>
    /\ UNCHANGED notModels

\* the generator runs on the descriptors as they are now
Generate(c) ==
    /\ callers[c].pc = "checked"
    /\ LET shape == callers[c].shape
           instance == generations[shape] + 1
           value == IF shape = "attrib" THEN AttribModelOf(entity_name, instance)
                    ELSE IF shape = "main"
                    THEN EntityModelOf(entity_name, has_id, fields, instance)
                    ELSE IF shape = "post"
                    THEN PostModelOf(entity_name, fields, instance)
                    ELSE PatchModelOf(entity_name, fields, instance)
       IN  /\ shape # "attrib" /\ NeedsGeneration(_attrib_model)
                  => CanGenerate("attrib")
           /\ callers' = [callers EXCEPT ![c] = [pc |-> "generated",
                                                 shape |-> shape,
                                                 local |-> Some(value)]]
           /\ IF shape = "attrib"
              THEN /\ generations' = [generations EXCEPT !["attrib"] = @ + 1]
                   /\ UNCHANGED _attrib_model
              ELSE /\ generations' = [GenerationsAfterAttrib EXCEPT ![shape] = @ + 1]
                   /\ _attrib_model' = AttribAfterAccess
           /\ fields' = IF shape = "patch" THEN SharedAfterPatch(fields) ELSE fields
    /\ UNCHANGED <<entity_name, has_id, _model, _post_model, _patch_model, returned>>
    /\ UNCHANGED notModels

\* self._x = <generated>; return self._x
Store(c) ==
    /\ callers[c].pc = "generated"
    /\ SetCache(callers[c].shape, callers[c].local)
    /\ callers' = [callers EXCEPT ![c] = CallerIdle]
    /\ UNCHANGED <<entity_name, has_id, fields, generations, returned>>
    /\ UNCHANGED notModels

RaceNext ==
    \/ \E c \in Callers, shape \in Shapes : Check(c, shape)
    \/ \E c \in Callers : Generate(c)
    \/ \E c \in Callers : Store(c)

\* the field lists the race is run on: the given ones, the empty one, and
\* one with a required field and a dynamic field
RaceFields(name) ==
    IF name \in DOMAIN FIELD_LISTS THEN {FIELD_LISTS[name]}
    ELSE {<<>>, <<Field("label", TRUE, FALSE), Field("path", FALSE, TRUE)>>}

RaceInit ==
    /\ entity_name \in EntityTypes
    /\ has_id \in BOOLEAN
    /\ fields \in RaceFields(entity_name)
    /\ pre_fields(has_id)[1].name \notin FieldNames(fields)
    /\ _model = Null
    /\ _post_model = Null
    /\ _patch_model = Null
    /\ _attrib_model = Null
    /\ generations = [k \in Shapes |-> 0]
    /\ returned = [k \in Shapes |-> {}]
    /\ callers = [c \in Callers |-> CallerIdle]

InitRace == RaceInit /\ TaskIdle /\ LockIdle /\ AnatomyIdle /\ InstanceIdle
    /\ LabelIdle /\ AvatarIdle /\ PresetIdle

SpecRace == InitRace /\ [][RaceNext]_vars

(***************************************************************************)
(* Two callers of load(for_update) .. save on one task row.  The database  *)
(* sessions are a caller's transaction <<"tx", c>> and the session in      *)
(* which Postgres.iterate runs the query of its load, <<"cursor", c>>.     *)
(***************************************************************************)
\* the query runs in the caller's transaction
TransactionSession(c) == <<"tx", c>>

\* Postgres.iterate(query, entity_id): the transaction is not passed on, the
\* query runs in a session of its own
QuerySession(c) == <<"cursor", c>>

\* 'FOR UPDATE OF t' if transaction and for_update else ''
LockRequested(transaction, for_update) == transaction /\ for_update

\* the caller opens a transaction or not, and chooses for_update
Begin(c, transaction, for_update) ==
    /\ lock_pc[c].pc = "idle"
    /\ row_version < MaxWrites
    /\ lock_pc' = [lock_pc EXCEPT ![c] = [pc |-> "begun",
                                          transaction |-> transaction,
                                          for_update |-> for_update]]
    /\ UNCHANGED <<lock_holder, row_version, seen_version>>
    /\ UNCHANGED notLock

\* TaskEntity.load: the query waits for the row lock when it asks for it,
\* takes it for its session, and load returns the row
LockLoad(c) ==
    /\ lock_pc[c].pc = "begun"
    /\ IF LockRequested(lock_pc[c].transaction, lock_pc[c].for_update)
       THEN /\ lock_holder \subseteq {QuerySession(c)}
            /\ lock_holder' = {QuerySession(c)}
       ELSE UNCHANGED lock_holder
    /\ seen_version' = [seen_version EXCEPT ![c] = row_version]
    /\ lock_pc' = [lock_pc EXCEPT ![c].pc = "loaded"]
    /\ UNCHANGED row_version
    /\ UNCHANGED notLock

\* load returned from inside the async for: the abandoned iterator is
\* finalised at some later point, which ends its session
CursorClose(c) ==
    /\ lock_pc[c].pc # "begun"
    /\ QuerySession(c) \in lock_holder
    /\ lock_holder' = lock_holder \ {QuerySession(c)}
    /\ UNCHANGED <<lock_pc, row_version, seen_version>>
    /\ UNCHANGED notLock

\* modify and save: the UPDATE waits for a row lock of another session, and
\* inside a transaction keeps the row locked until the commit
LockSave(c) ==
    /\ lock_pc[c].pc = "loaded"
    /\ lock_holder \subseteq {TransactionSession(c)}
    /\ row_version' = seen_version[c] + 1
    /\ lock_holder' = IF lock_pc[c].transaction THEN {TransactionSession(c)}
                      ELSE lock_holder
    /\ lock_pc' = [lock_pc EXCEPT ![c].pc = "saved"]
    /\ UNCHANGED seen_version
    /\ UNCHANGED notLock

\* the end of the caller's transaction (or of its request)
Commit(c) ==
    /\ lock_pc[c].pc = "saved"
    /\ lock_holder' = lock_holder \ {TransactionSession(c)}
    /\ lock_pc' = [lock_pc EXCEPT ![c] = LockCallerIdle]
    /\ UNCHANGED <<row_version, seen_version>>
    /\ UNCHANGED notLock

LockNext ==
    \/ \E c \in Callers, transaction \in BOOLEAN, for_update \in BOOLEAN :
           Begin(c, transaction, for_update)
    \/ \E c \in Callers : LockLoad(c)
    \/ \E c \in Callers : CursorClose(c)
    \/ \E c \in Callers : LockSave(c)
    \/ \E c \in Callers : Commit(c)

InitLock == LockIdle /\ TaskIdle /\ ModelsIdle /\ AnatomyIdle /\ InstanceIdle
    /\ LabelIdle /\ AvatarIdle /\ PresetIdle

SpecLock == InitLock /\ [][LockNext]_vars

(***************************************************************************)
(* anatomy_to_project_data (ayon_server/helpers/deploy_project.py).        *)
(***************************************************************************)
RootNames == {"work", "publish"}

\* the root definitions an anatomy can hold
Roots ==
    [name : RootNames, windows : {"P:/projects", "Q:/projects"},
     linux : {"/mnt/projects", "/prod"}, darwin : {"/Volumes/projects"}]

RootListsUpTo(n) == UNION {[1..k -> Roots] : k \in 0..n}

\* a template of a group: a dict with a name
DefaultTemplate ==
    <<<<"name", "default">>, <<"directory", "{root[work]}/{project[name]}">>,
      <<"file", "{project[code]}_{version}.{ext}">>>>

TemplateGroups == {<<>>, <<DefaultTemplate>>}

Templates ==
    [version_padding : {3}, version : {"v{version:0>3}"},
     frame_padding : {4}, frame : {"{frame:0>4}"},
     work : TemplateGroups, publish : TemplateGroups,
     hero : {<<>>}, delivery : {<<>>}, others : {<<>>}]

Anatomies ==
    [task_types : {<<[name |-> "Generic"]>>},
     folder_types : {<<[name |-> "Shot"]>>},
     statuses : {<<[name |-> "Not ready"]>>},
     tags : {<<>>},
     attributes : {[frameStart |-> 1001]},
     roots : RootListsUpTo(MaxRoots),
     templates : Templates]

TemplateTypes == <<"work", "publish", "hero", "delivery", "others">>

\* anatomy.templates.dict().get(template_type, [])
TemplateGroup(templates, template_type) ==
    CASE template_type = "work" -> templates.work
      [] template_type = "publish" -> templates.publish
      [] template_type = "hero" -> templates.hero
      [] template_type = "delivery" -> templates.delivery
      [] template_type = "others" -> templates.others

\* the key a root is stored under, mutated: one key for every root
RootKeyConstant(root) == "root"

\* config["roots"][root.name]
RootKey(root) == root.name

RootEntry(root) ==
    [windows |-> root.windows, linux |-> root.linux, darwin |-> root.darwin]

RECURSIVE RootsConfig(_, _)
\* for root in anatomy.roots: config["roots"][root.name] = {...}
RootsConfig(config, roots) ==
    IF roots = <<>> THEN config
    ELSE RootsConfig(DictSet(config, RootKey(Head(roots)), RootEntry(Head(roots))),
                     Tail(roots))

\* {k: template[k] for k in template.keys() if k != "name"}
WithoutName(template) == SelectSeq(template, LAMBDA kv : kv[1] # "name")

RECURSIVE GroupConfig(_, _)
\* for template in template_group: config[...][template["name"]] = {...}
GroupConfig(config, template_group) ==
    IF template_group = <<>> THEN config
    ELSE GroupConfig(DictSet(config, DictValue(Head(template_group), "name"),
                             WithoutName(Head(template_group))),
                     Tail(template_group))

RECURSIVE TemplatesConfig(_, _, _)
\* for template_type in (...): empty groups are skipped
TemplatesConfig(config, templates, types) ==
    IF types = <<>> THEN config
    ELSE LET template_group == TemplateGroup(templates, Head(types))
         IN  TemplatesConfig(
                 IF template_group = <<>> THEN config
                 ELSE DictSet(config, Head(types),
                              GroupConfig(<<>>, template_group)),
                 templates, Tail(types))

CommonTemplates(templates) ==
    <<<<"common", [version_padding |-> templates.version_padding,
                   version |-> templates.version,
                   frame_padding |-> templates.frame_padding,
                   frame |-> templates.frame]>>>>

anatomy_to_project_data(a) ==
    [task_types |-> a.task_types,
     folder_types |-> a.folder_types,
     statuses |-> a.statuses,
     tags |-> a.tags,
     attrib |-> a.attributes,
     config |-> [roots |-> RootsConfig(<<>>, a.roots),
                 templates |-> TemplatesConfig(CommonTemplates(a.templates),
                                               a.templates, TemplateTypes)]]

AnatomyInit ==
    /\ anatomy \in {Some(a) : a \in Anatomies}
    /\ project_data = Null

\* a caller transforms the anatomy it holds
Transform ==
    /\ anatomy # Null
    /\ project_data' = Some(anatomy_to_project_data(Unwrap(anatomy)))
    /\ UNCHANGED anatomy
    /\ UNCHANGED notAnatomy

AnatomyNext == Transform

InitAnatomy == AnatomyInit /\ TaskIdle /\ ModelsIdle /\ LockIdle /\ InstanceIdle
    /\ LabelIdle /\ AvatarIdle /\ PresetIdle

SpecAnatomy == InitAnatomy /\ [][AnatomyNext]_vars

(***************************************************************************)
(* An instance of the attribute sub-schema (entity.attrib) and the         *)
(* statements a caller holding the entity can run on it.                   *)
(***************************************************************************)
\* class AttribModelConfig: allow_mutation = False
AttribModelConfig == [allow_mutation |-> FALSE]

ToolNames == {"maya", "nuke"}

\* the values of a list_of_strings attribute
ToolLists == UNION {[1..k -> ToolNames] : k \in 0..MaxTools}

\* the attributes of the instance: an integer and a list of strings
InstanceAttributes ==
    [frameStart |-> [type |-> "integer", values |-> AttrValues],
     tools |-> [type |-> "list_of_strings", values |-> ToolLists]]

InstanceNames == DOMAIN InstanceAttributes

InstanceInit ==
    /\ attrib_instance \in {Some([frameStart |-> v, tools |-> l]) :
                               v \in AttrValues, l \in {<<>>, <<"maya">>}}
    /\ instance_own \in {<<>>, <<"frameStart">>, <<"tools">>}
    /\ instance_result = "none"

\* entity.patch(...) with one attribute: the value is set on a new instance
\* of the sub-schema and the name joins own_attrib
InstancePatch(name, value) ==
    /\ attrib_instance # Null
    /\ attrib_instance' = Some([Unwrap(attrib_instance) EXCEPT ![name] = value])
    /\ instance_own' = IF name \in Range(instance_own) THEN instance_own
                       ELSE Append(instance_own, name)
    /\ instance_result' = "patched"
    /\ UNCHANGED notInstance

\* entity.attrib.<name> = value : the model's __setattr__ refuses when its
\* config does not allow mutation
SetAttr(name, value) ==
    /\ attrib_instance # Null
    /\ IF AttribModelConfig.allow_mutation
       THEN /\ attrib_instance' =
                   Some([Unwrap(attrib_instance) EXCEPT ![name] = value])
            /\ instance_result' = "assigned"
       ELSE /\ UNCHANGED attrib_instance
            /\ instance_result' = "TypeError"
    /\ UNCHANGED instance_own
    /\ UNCHANGED notInstance

\* entity.attrib.<name>.append(item) : no assignment to the instance takes
\* place, the list the instance holds is changed in place
AppendInPlace(name, item) ==
    /\ attrib_instance # Null
    /\ InstanceAttributes[name].type = "list_of_strings"
    /\ Len(Unwrap(attrib_instance)[name]) < MaxTools
    /\ attrib_instance' =
           Some([Unwrap(attrib_instance) EXCEPT ![name] = Append(@, item)])
    /\ instance_result' = "appended"
    /\ UNCHANGED instance_own
    /\ UNCHANGED notInstance

InstanceNext ==
    \/ \E name \in InstanceNames :
           \E value \in InstanceAttributes[name].values :
               InstancePatch(name, value)
    \/ \E name \in InstanceNames :
           \E value \in InstanceAttributes[name].values : SetAttr(name, value)
    \/ \E name \in InstanceNames, item \in ToolNames : AppendInPlace(name, item)

InitInstance == InstanceInit /\ TaskIdle /\ ModelsIdle /\ LockIdle /\ AnatomyIdle
    /\ LabelIdle /\ AvatarIdle /\ PresetIdle

SpecInstance == InitInstance /\ [][InstanceNext]_vars

(***************************************************************************)
(* TaskEntity.label: the getter and the setter of the property, one frame  *)
(* of the interpreter per call.                                            *)
(***************************************************************************)
Labels == {"Modeling", "Layout"}

\* the getter, mutated: it reads the payload
GetterReadsPayload == "self._payload.label"

\* return self.label or self.name
GetterReads == "self.label"

\* self.label = value
SetterAssigns == "self.label"

\* on a TaskEntity the name label is the property itself
IsLabelProperty(target) == target = "self.label"

\* a call of an accessor: a new frame, or RecursionError once the stack is
\* full, which unwinds every frame
CallAccessor(frame) ==
    IF Len(label_stack) < MaxDepth
    THEN /\ label_stack' = Append(label_stack, frame)
         /\ label_result' = "running"
    ELSE /\ label_stack' = <<>>
         /\ label_result' = "RecursionError"

\* the innermost accessor reaches its end, and so does each of its callers
ReturnNormally ==
    /\ label_stack' = <<>>
    /\ label_result' = "returned"

\* a caller evaluates task.label
ReadLabel ==
    /\ label_stack = <<>>
    /\ CallAccessor([fn |-> "getter"])
    /\ UNCHANGED notLabel

\* a caller runs task.label = value
AssignLabel(value) ==
    /\ label_stack = <<>>
    /\ CallAccessor([fn |-> "setter", value |-> value])
    /\ UNCHANGED notLabel

\* the body of the getter in the innermost frame
LabelGetter ==
    /\ label_stack # <<>>
    /\ label_stack[Len(label_stack)].fn = "getter"
    /\ IF IsLabelProperty(GetterReads)
       THEN CallAccessor([fn |-> "getter"])
       ELSE ReturnNormally
    /\ UNCHANGED notLabel

\* the body of the setter in the innermost frame
LabelSetter ==
    /\ label_stack # <<>>
    /\ label_stack[Len(label_stack)].fn = "setter"
    /\ IF IsLabelProperty(SetterAssigns)
       THEN CallAccessor(label_stack[Len(label_stack)])
       ELSE ReturnNormally
    /\ UNCHANGED notLabel

LabelNext ==
    \/ ReadLabel
    \/ \E value \in Labels : AssignLabel(value)
    \/ LabelGetter
    \/ LabelSetter

LabelInit ==
    /\ label_stack = <<>>
    /\ label_result = "none"

InitLabel == LabelInit /\ TaskIdle /\ ModelsIdle /\ LockIdle /\ AnatomyIdle
    /\ InstanceIdle /\ AvatarIdle /\ PresetIdle

SpecLabel == InitLabel /\ [][LabelNext]_vars

(***************************************************************************)
(* get_avatar and upload_avatar (api/users/avatar.py) of one user who has  *)
(* no avatarUrl.  A request is cut where the handler awaits.               *)
(***************************************************************************)
\* for ext in ["jpeg", "png", "jpg", "svg"]
ExtOrder == <<"jpeg", "png", "jpg", "svg">>

mime_to_ext ==
    <<<<"image/png", "png">>, <<"image/jpeg", "jpeg">>,
      <<"image/svg+xml", "svg">>>>

\* the Content-Type headers a client sends
Mimes == KeySet(mime_to_ext) \cup {"image/gif"}

\* the body of the n-th upload, in the format of its Content-Type
Uploaded(n, ext) == [kind |-> "upload", seq |-> n, format |-> ext]

\* a file that was opened for writing and not written yet
EmptyBytes == [kind |-> "empty"]

\* create_initials_svg(user_name, full_name).encode()
InitialsSvg == [kind |-> "initials"]

\* if not avatar_bytes: nothing cached, or empty bytes
Falsy(bytes) == IsNull(bytes) \/ bytes = Some(EmptyBytes)

\* load_avatar_file: the first extension in the order that has a file; Null
\* stands for FileNotFoundError
load_avatar_file(files) ==
    IF \A i \in 1..Len(ExtOrder) : IsNull(files[ExtOrder[i]]) THEN Null
    ELSE files[ExtOrder[CHOOSE i \in 1..Len(ExtOrder) :
                   /\ ~IsNull(files[ExtOrder[i]])
                   /\ \A j \in 1..(i - 1) : IsNull(files[ExtOrder[j]])]]

\* the response of get_avatar by the first bytes of the avatar
MediaResponse(bytes) ==
    IF bytes = EmptyBytes THEN [status |-> "NotFoundException", content |-> Null]
    ELSE [status |-> "ok", content |-> Some(bytes)]

UploadInProgress ==
    \E c \in Callers :
        avatar_clients[c].pc \in {"open_file", "write_file", "redis_delete"}

\* get_avatar up to the end of Redis.get: a cached avatar is the response
get_avatar(c) ==
    /\ avatar_clients[c].pc = "idle"
    /\ avatar_clients' = [avatar_clients EXCEPT ![c] =
           IF Falsy(avatar_cache)
           THEN [pc |-> "obtain", bytes |-> Null, floor |-> uploads_done,
                 response |-> Null]
           ELSE [pc |-> "idle", bytes |-> Null, floor |-> uploads_done,
                 response |-> Some(MediaResponse(Unwrap(avatar_cache)))]]
    /\ UNCHANGED <<avatar_files, avatar_cache, uploads_done>>
    /\ UNCHANGED notAvatar

\* obtain_avatar up to Redis.set: the user row has no url, the avatar is
\* the file, or the initials when there is none
obtain_avatar(c) ==
    /\ avatar_clients[c].pc = "obtain"
    /\ LET file == load_avatar_file(avatar_files)
       IN  avatar_clients' = [avatar_clients EXCEPT
               ![c].pc = "redis_set",
               ![c].bytes = IF IsNull(file) THEN Some(InitialsSvg) ELSE file]
    /\ UNCHANGED <<avatar_files, avatar_cache, uploads_done>>
    /\ UNCHANGED notAvatar

\* Redis.set(REDIS_NS, user_name, avatar_bytes), and the response
RedisSet(c) ==
    /\ avatar_clients[c].pc = "redis_set"
    /\ avatar_cache' = avatar_clients[c].bytes
    /\ avatar_clients' = [avatar_clients EXCEPT
           ![c].pc = "idle",
           ![c].bytes = Null,
           ![c].response = Some(MediaResponse(Unwrap(avatar_clients[c].bytes)))]
    /\ UNCHANGED <<avatar_files, uploads_done>>
    /\ UNCHANGED notAvatar

\* upload_avatar up to the end of request.body(); the uploads of the user
\* come one after another
upload_avatar(c, permitted, mime) ==
    /\ avatar_clients[c].pc = "idle"
    /\ ~UploadInProgress
    /\ uploads_done < MaxUploads
    /\ avatar_clients' = [avatar_clients EXCEPT ![c] =
           IF ~permitted \/ mime \notin KeySet(mime_to_ext)
           THEN [pc |-> "idle", bytes |-> Null, floor |-> 0,
                 response |-> Some([status |-> "NotFoundException",
                                    content |-> Null])]
           ELSE [pc |-> "open_file",
                 bytes |-> Some(Uploaded(uploads_done + 1,
                                         DictValue(mime_to_ext, mime))),
                 floor |-> 0, response |-> Null]]
    /\ UNCHANGED <<avatar_files, avatar_cache, uploads_done>>
    /\ UNCHANGED notAvatar

\* aiofiles.open(avatar_path, "wb"): the file of the extension is truncated
OpenAvatarFile(c) ==
    /\ avatar_clients[c].pc = "open_file"
    /\ avatar_files' = [avatar_files EXCEPT
           ![Unwrap(avatar_clients[c].bytes).format] = Some(EmptyBytes)]
    /\ avatar_clients' = [avatar_clients EXCEPT ![c].pc = "write_file"]
    /\ UNCHANGED <<avatar_cache, uploads_done>>
    /\ UNCHANGED notAvatar

\* await f.write(avatar_bytes)
WriteAvatarFile(c) ==
    /\ avatar_clients[c].pc = "write_file"
    /\ avatar_files' = [avatar_files EXCEPT
           ![Unwrap(avatar_clients[c].bytes).format] = avatar_clients[c].bytes]
    /\ avatar_clients' = [avatar_clients EXCEPT ![c].pc = "redis_delete"]
    /\ UNCHANGED <<avatar_cache, uploads_done>>
    /\ UNCHANGED notAvatar

\* Redis.delete(REDIS_NS, user_name): the upload is complete
RedisDelete(c) ==
    /\ avatar_clients[c].pc = "redis_delete"
    /\ avatar_cache' = Null
    /\ uploads_done' = uploads_done + 1
    /\ avatar_clients' = [avatar_clients EXCEPT
           ![c].pc = "idle",
           ![c].bytes = Null,
           ![c].response = Some([status |-> "ok", content |-> Null])]
    /\ UNCHANGED avatar_files
    /\ UNCHANGED notAvatar

AvatarNext ==
    \/ \E c \in Callers : get_avatar(c)
    \/ \E c \in Callers : obtain_avatar(c)
    \/ \E c \in Callers : RedisSet(c)
    \/ \E c \in Callers, permitted \in BOOLEAN, mime \in Mimes :
           upload_avatar(c, permitted, mime)
    \/ \E c \in Callers : OpenAvatarFile(c)
    \/ \E c \in Callers : WriteAvatarFile(c)
    \/ \E c \in Callers : RedisDelete(c)

InitAvatar == AvatarIdle /\ TaskIdle /\ ModelsIdle /\ LockIdle /\ AnatomyIdle
    /\ InstanceIdle /\ LabelIdle /\ PresetIdle

SpecAvatar == InitAvatar /\ [][AvatarNext]_vars

(***************************************************************************)
(* The anatomy preset endpoints (api/anatomy/__init__.py).  Every row has  *)
(* the version VERSION, so a row is known by its name.  A transaction      *)
(* reads committed rows and its own writes (READ COMMITTED), holds the     *)
(* lock of each row it wrote until it commits, and a statement that meets  *)
(* a row locked by another transaction waits.                              *)
(***************************************************************************)
\* the data of a preset
PresetData == {"d1", "d2"}

\* the preset names of a request: '_' stands for no preset
RequestNames == PresetNames \cup {"_"}

\* the rows another caller's transaction has written and not committed
LockedByOther(c) ==
    {w[1] : w \in UNION {preset_tx[o].writes : o \in Callers \ {c}}}

\* is_primary of row n as the transaction of c sees it
VisiblePrimary(c, n) ==
    IF \E w \in preset_tx[c].writes : w[1] = n
    THEN (CHOOSE w \in preset_tx[c].writes : w[1] = n)[2]
    ELSE Unwrap(anatomy_presets[n]).is_primary

Existing == {n \in PresetNames : anatomy_presets[n] # Null}

\* INSERT INTO anatomy_presets (name, version, data) ... ON CONFLICT
\* (name, version) DO update SET data: a new row is not primary
update_anatomy_preset(c, is_manager, preset_name, data) ==
    /\ preset_tx[c].pc = "idle"
    /\ IF ~is_manager
       THEN UNCHANGED anatomy_presets
       ELSE /\ preset_name \notin LockedByOther(c)
            /\ anatomy_presets' = [anatomy_presets EXCEPT ![preset_name] =
                   IF @ = Null THEN Some([is_primary |-> FALSE, data |-> data])
                   ELSE Some([Unwrap(@) EXCEPT !.data = data])]
    /\ UNCHANGED preset_tx
    /\ UNCHANGED notPreset

\* set_primary_preset up to the end of its first statement:
\* UPDATE anatomy_presets SET is_primary = FALSE WHERE is_primary = TRUE
set_primary_preset(c, is_manager, preset_name) ==
    /\ preset_tx[c].pc = "idle"
    /\ IF ~is_manager
       THEN UNCHANGED preset_tx
       ELSE LET primary == {n \in Existing : VisiblePrimary(c, n)}
            IN  /\ primary \cap LockedByOther(c) = {}
                /\ preset_tx' = [preset_tx EXCEPT ![c] =
                       [pc |-> IF preset_name # "_" THEN "set" ELSE "commit",
                        name |-> preset_name,
                        writes |-> {<<n, FALSE>> : n \in primary}]]
    /\ UNCHANGED anatomy_presets
    /\ UNCHANGED notPreset

\* UPDATE anatomy_presets SET is_primary = TRUE WHERE name = $1
SetPrimaryStatement(c) ==
    /\ preset_tx[c].pc = "set"
    /\ LET n == preset_tx[c].name
       IN  /\ n \notin LockedByOther(c)
           /\ preset_tx' = [preset_tx EXCEPT
                  ![c].pc = "commit",
                  ![c].writes = IF n \in Existing
                                THEN {w \in @ : w[1] # n} \cup {<<n, TRUE>>}
                                ELSE @]
    /\ UNCHANGED anatomy_presets
    /\ UNCHANGED notPreset

\* the end of async with conn.transaction()
CommitPrimary(c) ==
    /\ preset_tx[c].pc = "commit"
    /\ anatomy_presets' = [n \in PresetNames |->
           IF \E w \in preset_tx[c].writes : w[1] = n
           THEN Some([Unwrap(anatomy_presets[n]) EXCEPT
                         !.is_primary = VisiblePrimary(c, n)])
           ELSE anatomy_presets[n]]
    /\ preset_tx' = [preset_tx EXCEPT ![c] = TxIdle]
    /\ UNCHANGED notPreset

\* DELETE FROM anatomy_presets WHERE name = $1, in a transaction of its own
delete_anatomy_preset(c, is_manager, preset_name) ==
    /\ preset_tx[c].pc = "idle"
    /\ IF ~is_manager
       THEN UNCHANGED anatomy_presets
       ELSE /\ preset_name \notin LockedByOther(c)
            /\ anatomy_presets' = [anatomy_presets EXCEPT ![preset_name] = Null]
    /\ UNCHANGED preset_tx
    /\ UNCHANGED notPreset

PresetsNext ==
    \/ \E c \in Callers, is_manager \in BOOLEAN, preset_name \in PresetNames,
          data \in PresetData :
           update_anatomy_preset(c, is_manager, preset_name, data)
    \/ \E c \in Callers, is_manager \in BOOLEAN, preset_name \in RequestNames :
           set_primary_preset(c, is_manager, preset_name)
    \/ \E c \in Callers : SetPrimaryStatement(c)
    \/ \E c \in Callers : CommitPrimary(c)
    \/ \E c \in Callers, is_manager \in BOOLEAN, preset_name \in PresetNames :
           delete_anatomy_preset(c, is_manager, preset_name)

InitPresets == PresetIdle /\ TaskIdle /\ ModelsIdle /\ LockIdle /\ AnatomyIdle
    /\ InstanceIdle /\ LabelIdle /\ AvatarIdle

SpecPresets == InitPresets /\ [][PresetsNext]_vars

(***************************************************************************)
(* Properties.                                                             *)
(***************************************************************************)
\* the last operation was a load of the task that returned an entity; the
\* tables are as that load read them
Loaded ==
    /\ result.op = "load"
    /\ result.arg = TaskId
    /\ result.outcome = "loaded"
    /\ entity # Null

StoredAttrib == (CHOOSE t \in tasks : t.id = TaskId).attrib

HasClosure == \E ia \in exported_attributes : ia.folder_id = FolderId

\* the closure of the task's folder, empty when the row is missing
Closure ==
    IF HasClosure
    THEN (CHOOSE ia \in exported_attributes : ia.folder_id = FolderId).attrib
    ELSE EmptyMap

Effective == Unwrap(entity).attrib

Own == Range(Unwrap(entity).own_attrib)

\* C1: when the closure row of the task's folder is missing, load of the task
\* does not fail: it returns an entity whose effective attributes are the
\* task's own values plus the defaults, and logs a warning.
C1_MissingClosureLoadSucceeds ==
    (/\ result.op = "load"
     /\ result.arg = TaskId
     /\ tasks # {}
     /\ ~HasClosure)
    => /\ result.outcome = "loaded"
       /\ result.warned
       /\ entity # Null
       /\ DOMAIN Effective = KeySet(StoredAttrib) \cup RegisteredNames
       /\ \A a \in DOMAIN Effective :
              Effective[a] = IF a \in KeySet(StoredAttrib)
                             THEN DictValue(StoredAttrib, a) ELSE AttrDefault(a)

\* the task type with the lowest position
LowestPositionType ==
    (CHOOSE r \in task_types : \A o \in task_types : r.position <= o.position).name

\* C2: a save that found task_type unset, in a project with at least one task
\* type, persists the task with the task type of the lowest position.
C2_UnsetTaskTypeGetsFirstType ==
    (/\ result.op = "save"
     /\ result.outcome = "saved"
     /\ result.unset_type
     /\ task_types # {})
    => \A t \in tasks : t.task_type = Some(LowestPositionType)

\* C3: for every attribute name stored on the task and present in the
\* folder's closure, the effective value load returns is the task's stored
\* value.
C3_OwnValueWins ==
    Loaded =>
        \A a \in KeySet(StoredAttrib) \cap DOMAIN Closure :
            /\ a \in DOMAIN Effective
            /\ Effective[a] = DictValue(StoredAttrib, a)

C3_Witness ==
    /\ Loaded
    /\ \E a \in KeySet(StoredAttrib) \cap DOMAIN Closure :
           /\ Closure[a] # DictValue(StoredAttrib, a)
           /\ Effective[a] = DictValue(StoredAttrib, a)

\* C4: for every attribute name outside own of the loaded entity, the
\* effective value is the closure's value when the closure has the name, and
\* the registered default otherwise; a name with neither has no value.
C4_InheritedOrDefault ==
    Loaded =>
        \A a \in AttrNames \ Own :
            IF a \in DOMAIN Closure
            THEN a \in DOMAIN Effective /\ Effective[a] = Closure[a]
            ELSE IF a \in RegisteredNames
            THEN a \in DOMAIN Effective /\ Effective[a] = AttrDefault(a)
            ELSE a \notin DOMAIN Effective

C4_Witness ==
    /\ Loaded
    /\ \E a \in AttrNames \ Own : a \in DOMAIN Closure /\ Effective[a] = Closure[a]
    /\ \E a \in RegisteredNames \ Own :
           a \notin DOMAIN Closure /\ Effective[a] = AttrDefault(a)

\* C5: after load, own_attrib is the list of the keys of the stored attrib
\* row, in stored order.
C5_OwnAttribIsStoredKeys ==
    Loaded => Unwrap(entity).own_attrib = DictKeys(StoredAttrib)

C5_Witness ==
    /\ Loaded
    /\ Len(StoredAttrib) = 1
    /\ DOMAIN Closure \ KeySet(StoredAttrib) # {}
    /\ Unwrap(entity).own_attrib = DictKeys(StoredAttrib)

\* C6: in every state of an entity instance, every name in own is a key of
\* the effective attribute mapping.
C6_OwnSubsetOfEffective ==
    entity # Null => Own \subseteq DOMAIN Effective

C6_Witness ==
    /\ entity # Null
    /\ result.op = "save"
    /\ result.outcome = "saved"
    /\ patched = EmptyMap
    /\ pinned # EmptyMap
    /\ Own = AttrNames
    /\ Own \subseteq DOMAIN Effective

\* C7: a value patched on the task and saved is returned by every later load,
\* with its name in own, whatever the closure holds.
C7_PinnedSurvivesReload ==
    Loaded =>
        \A a \in DOMAIN pinned :
            /\ a \in Own
            /\ a \in DOMAIN Effective
            /\ Effective[a] = pinned[a]

C7_Witness ==
    /\ Loaded
    /\ \E a \in DOMAIN pinned :
           /\ a \in DOMAIN Closure
           /\ Closure[a] # pinned[a]
           /\ Effective[a] = pinned[a]
           /\ a \in Own

\* C8: a load returns, for every name no caller ever set on the task, the
\* value the closure holds now (or the default, or nothing): no value of an
\* earlier load or of a save in between is kept.
C8_InheritedRecomputed ==
    Loaded =>
        \A a \in AttrNames \ explicit :
            IF a \in DOMAIN Closure
            THEN a \in DOMAIN Effective /\ Effective[a] = Closure[a] /\ a \notin Own
            ELSE IF a \in RegisteredNames
            THEN a \in DOMAIN Effective /\ Effective[a] = AttrDefault(a)
            ELSE a \notin DOMAIN Effective

C8_Witness ==
    /\ Loaded
    /\ pinned # EmptyMap
    /\ \E a \in AttrNames \ explicit :
           a \in DOMAIN Closure /\ Effective[a] = Closure[a]

\* C9: the stored attrib never holds a name that no caller set on the task,
\* and after a save it holds the names of own and nothing else.
C9_SaveWritesOnlyOwn ==
    \A t \in tasks :
        /\ KeySet(t.attrib) \subseteq explicit
        /\ (result.op = "save" /\ result.outcome = "saved")
               => KeySet(t.attrib) = Own

C9_Witness ==
    /\ result.op = "save"
    /\ result.outcome = "saved"
    /\ tasks # {}
    /\ \E a \in DOMAIN Closure :
           /\ a \in DOMAIN Effective
           /\ a \notin Own
           /\ a \notin KeySet(StoredAttrib)

\* C10: a patch with the empty partial document is accepted and leaves own
\* and the effective attribute mapping as they were.
C10_EmptyPatchChangesNothing ==
    [][Patch(EmptyMap) =>
          /\ result'.outcome = "patched"
          /\ Unwrap(entity').own_attrib = Unwrap(entity).own_attrib
          /\ Unwrap(entity').attrib = Unwrap(entity).attrib]_vars

C10_Witness ==
    /\ result.op = "patch"
    /\ result.arg = "empty"
    /\ result.outcome = "patched"
    /\ entity # Null
    /\ Own # {}
    /\ DOMAIN Effective \ Own # {}

(***************************************************************************)
(* Properties of the ModelSet shapes.                                      *)
(***************************************************************************)
PostShape == Unwrap(_post_model).fields

PatchShape == Unwrap(_patch_model).fields

FullShape == Unwrap(_model).fields

\* the descriptor lists a shape is built from
Descriptors == fields \o _common_fields

\* the fields the claim calls dynamic
ClaimedDynamic == {"attrib", "own_attrib", "data", "active"}

IdentifierName == IF has_id THEN "id" ELSE "name"

\* C11 as stated: the create shape holds none of attrib, own_attrib, data,
\* active, no field marked dynamic, no identifier; every field it holds has
\* the required flag of its descriptor.
C11_CreateShapeHasNoDynamicField ==
    _post_model # Null =>
        /\ FieldNames(PostShape) \cap ClaimedDynamic = {}
        /\ \A i \in 1..Len(Descriptors) :
               Descriptors[i].dynamic => Descriptors[i].name \notin FieldNames(PostShape)
        /\ IdentifierName \notin FieldNames(PostShape)
        /\ \A i \in 1..Len(fields) :
               ~fields[i].dynamic => \E j \in 1..Len(PostShape) :
                   /\ PostShape[j].name = fields[i].name
                   /\ PostShape[j].required = fields[i].required

\* C11 amended: the create shape holds no field whose descriptor is marked
\* dynamic (own_attrib, and the entries of the field list tagged dynamic) and
\* no identifier; attrib, data and active are not marked dynamic and are in
\* the create shape; every field has the required flag of its descriptor.
C11_CreateShapeHasNoMarkedField ==
    _post_model # Null =>
        /\ \A i \in 1..Len(Descriptors) :
               Descriptors[i].dynamic => Descriptors[i].name \notin FieldNames(PostShape)
        /\ "own_attrib" \notin FieldNames(PostShape)
        /\ {"attrib", "data", "active"} \subseteq FieldNames(PostShape)
        /\ IdentifierName \notin FieldNames(PostShape)
        /\ \A i \in 1..Len(fields) :
               ~fields[i].dynamic => \E j \in 1..Len(PostShape) :
                   /\ PostShape[j].name = fields[i].name
                   /\ PostShape[j].required = fields[i].required
        /\ \A j \in 1..Len(PostShape) :
               PostShape[j].name \in {"attrib", "data", "active", "status", "tags"}
                   => ~PostShape[j].required

C11_Witness ==
    /\ _post_model # Null
    /\ \E i \in 1..Len(fields) : fields[i].dynamic
    /\ \E i \in 1..Len(fields) : ~fields[i].dynamic /\ fields[i].required
    /\ "attrib" \in FieldNames(PostShape)

\* C12: the patch shape has the field names of the create shape, in the same
\* order, and every field of the patch shape is optional.
C12_PatchShapeIsOptionalCreateShape ==
    (_post_model # Null /\ _patch_model # Null) =>
        /\ NameList(PatchShape) = NameList(PostShape)
        /\ \A j \in 1..Len(PatchShape) : ~PatchShape[j].required

C12_Witness ==
    /\ _post_model # Null
    /\ _patch_model # Null
    /\ \E j \in 1..Len(PostShape) : PostShape[j].required
    /\ \E i \in 1..Len(fields) : fields[i].dynamic
    /\ NameList(PatchShape) = NameList(PostShape)

CacheOf(shape) ==
    IF shape = "attrib" THEN _attrib_model
    ELSE IF shape = "main" THEN _model
    ELSE IF shape = "post" THEN _post_model
    ELSE _patch_model

\* C13: in a sequential run every shape is generated at most once, and every
\* access returns the one cached value.
C13_GeneratedAtMostOnce ==
    \A k \in Shapes :
        /\ generations[k] <= 1
        /\ \A r \in returned[k] : CacheOf(k) = Some(r[1])

C13_Witness ==
    \A k \in Shapes :
        /\ generations[k] = 1
        /\ \E r \in returned[k] : r[2]
        /\ \E r \in returned[k] : ~r[2]

ProjectLevelTypes == {"folder", "task", "subset", "version", "representation",
                      "workfile"}

LiveValues(k) ==
    CacheOf(k) \cup UNION {callers[c].local : c \in {c \in Callers :
                                                    callers[c].shape = k}}

\* C14: the values generated for one shape, by racing first callers or one
\* after the other, are structurally equal, whichever of them is cached.
C14_RacingGenerationsAgree ==
    \A k \in Shapes :
        \A m1 \in LiveValues(k), m2 \in LiveValues(k) : StructurallyEqual(m1, m2)

C14_Witness ==
    /\ _patch_model # Null
    /\ \E i \in 1..Len(fields) : fields[i].required /\ ~fields[i].dynamic
    /\ \E m1 \in LiveValues("post"), m2 \in LiveValues("post") :
           /\ m1.instance # m2.instance
           /\ StructurallyEqual(m1, m2)

(***************************************************************************)
(* Properties of load(for_update).                                         *)
(***************************************************************************)
\* the caller is between its load(for_update) in a transaction and the end
\* of that transaction
InLockedSection(c) ==
    /\ lock_pc[c].pc \in {"loaded", "saved"}
    /\ lock_pc[c].transaction
    /\ lock_pc[c].for_update

\* C16: two callers of load(for_update) in a transaction are serialized: no
\* caller has loaded the row while the transaction of another that loaded it
\* is open; and a load without for_update or without a transaction takes no
\* lock.
C16_LockHeldUntilTransactionEnds ==
    /\ \A c1 \in Callers, c2 \in Callers :
           (c1 # c2 /\ InLockedSection(c1)) => ~InLockedSection(c2)
    /\ \A c \in Callers :
           (lock_pc[c].pc = "loaded"
            /\ ~(lock_pc[c].transaction /\ lock_pc[c].for_update))
               => QuerySession(c) \notin lock_holder

(***************************************************************************)
(* Properties of the failures of load and save.                            *)
(***************************************************************************)
NotFoundOutcomes == {"NotFoundException: project", "NotFoundException: entity"}

\* C17: a load of a well-formed id raises not-found and returns no entity
\* when the project does not exist or no task row has the id.
C17_LoadOfMissingRowRaisesNotFound ==
    (/\ result.op = "load"
     /\ ~IsNull(EntityID_parse(result.arg))
     /\ \/ ~project_exists
        \/ \A t \in tasks : t.id # result.arg)
        => /\ result.outcome \in NotFoundOutcomes
           /\ entity = Null

\* a load of an id no row has, from a table that has a row, came back
\* not-found
C17_Witness ==
    /\ result.op = "load"
    /\ ~IsNull(EntityID_parse(result.arg))
    /\ project_exists
    /\ tasks # {}
    /\ \A t \in tasks : t.id # result.arg
    /\ result.outcome = "NotFoundException: entity"
    /\ entity = Null

\* C18: the save of a task with an unset task type in a project without
\* task types fails with the domain error, and the row is not written.
C18_NoTaskTypesRaisesDomainError ==
    (/\ result.op = "save"
     /\ result.unset_type
     /\ task_types = {})
        => result.outcome = "OpenPypeException"

(***************************************************************************)
(* Properties of the anatomy transform.                                    *)
(***************************************************************************)
\* no two root definitions of the anatomy share a name
UniqueRootNames(roots) ==
    \A i \in 1..Len(roots), j \in 1..Len(roots) :
        roots[i].name = roots[j].name => i = j

\* C19: the roots of an anatomy whose root definitions have distinct names
\* become a mapping keyed by root name with exactly one entry per root
\* definition, each entry holding the windows, linux and darwin paths of its
\* root; whatever the names, the keys are the root names.
C19_OneRootsEntryPerRoot ==
    project_data # Null =>
        LET roots == Unwrap(anatomy).roots
            config == Unwrap(project_data).config.roots
        IN  /\ KeySet(config) = {roots[i].name : i \in 1..Len(roots)}
            /\ UniqueRootNames(roots) =>
                   /\ Len(config) = Len(roots)
                   /\ \A i \in 1..Len(roots) :
                          DictValue(config, roots[i].name) =
                              [windows |-> roots[i].windows,
                               linux |-> roots[i].linux,
                               darwin |-> roots[i].darwin]

\* the roots work and publish, with different paths, were transformed into
\* exactly two entries
C19_Witness ==
    /\ project_data # Null
    /\ LET roots == Unwrap(anatomy).roots
           config == Unwrap(project_data).config.roots
       IN  /\ Len(roots) = 2
           /\ roots[1].name = "work"
           /\ roots[2].name = "publish"
           /\ roots[1].windows # roots[2].windows
           /\ DictKeys(config) = <<"work", "publish">>

(***************************************************************************)
(* Properties of the attribute sub-schema instance.                        *)
(***************************************************************************)
\* C20: instances of the attribute sub-schema are immutable after
\* construction: whatever the caller runs, an attribute whose value changes
\* is in own_attrib afterwards.
C20_NoValueChangesWithoutOwnAttrib ==
    [][\A name \in InstanceNames :
           (/\ attrib_instance # Null
            /\ Unwrap(attrib_instance')[name] # Unwrap(attrib_instance)[name])
               => name \in Range(instance_own')]_vars

(***************************************************************************)
(* Properties of the label property.                                       *)
(***************************************************************************)
\* C21: a read or an assignment of TaskEntity.label never terminates
\* normally: every frame of the getter and of the setter enters the same
\* accessor again, and the frames of one call are all of that accessor.
C21_LabelNeverReturns ==
    /\ label_result # "returned"
    /\ \A i \in 1..Len(label_stack) : label_stack[i] = label_stack[1]
    /\ (label_result = "running") = (label_stack # <<>>)

\* a read of label ended with RecursionError after filling the stack
C21_Witness ==
    /\ label_result = "RecursionError"
    /\ label_stack = <<>>

(***************************************************************************)
(* Properties of the shared field descriptors.                             *)
(***************************************************************************)
\* the cached full and create shapes carry, for every descriptor of
\* self.fields they include, the required flag the descriptor has now
SeesDescriptorFlags ==
    \A i \in 1..Len(fields) :
        /\ _model # Null =>
               \E j \in 1..Len(FullShape) :
                   /\ FullShape[j].name = fields[i].name
                   /\ FullShape[j].required = fields[i].required
        /\ (_post_model # Null /\ ~fields[i].dynamic) =>
               \E j \in 1..Len(PostShape) :
                   /\ PostShape[j].name = fields[i].name
                   /\ PostShape[j].required = fields[i].required

\* C22: no access to a shape, the patch shape included, changes the shared
\* field descriptors, and after every access the full and create shapes
\* carry the required flags of these descriptors, whatever the order of the
\* first accesses.
C22_PatchLeavesDescriptorsAlone ==
    [][fields' = fields /\ SeesDescriptorFlags']_vars

\* the three shapes exist, a required descriptor is still required, required
\* in the full and create shapes and optional in the patch shape
C22_Witness ==
    /\ _model # Null
    /\ _post_model # Null
    /\ _patch_model # Null
    /\ \E i \in 1..Len(fields) :
           /\ fields[i].required
           /\ ~fields[i].dynamic
           /\ \E j \in 1..Len(FullShape) :
                  FullShape[j].name = fields[i].name /\ FullShape[j].required
           /\ \E j \in 1..Len(PostShape) :
                  PostShape[j].name = fields[i].name /\ PostShape[j].required
           /\ \E j \in 1..Len(PatchShape) :
                  PatchShape[j].name = fields[i].name /\ ~PatchShape[j].required

(***************************************************************************)
(* Properties of the avatar endpoints.                                     *)
(***************************************************************************)
\* C23: a get_avatar that started after an upload had completed responds
\* with the bytes of that upload, or of a later one.
C23_GetAfterUploadIsFresh ==
    \A c \in Callers :
        (/\ avatar_clients[c].floor >= 1
         /\ avatar_clients[c].response # Null)
            => LET response == Unwrap(avatar_clients[c].response)
               IN  /\ response.status = "ok"
                   /\ response.content # Null
                   /\ Unwrap(response.content).kind = "upload"
                   /\ Unwrap(response.content).seq >= avatar_clients[c].floor

(***************************************************************************)
(* Properties of the anatomy presets.                                      *)
(***************************************************************************)
PrimaryPresets == {n \in Existing : Unwrap(anatomy_presets[n]).is_primary}

\* C24: whatever the interleaving of the requests, at most one committed
\* preset row is marked primary.
C24_AtMostOnePrimaryPreset == Cardinality(PrimaryPresets) <= 1

====
